---- MODULE Spec2Model ----
(***************************************************************************)
(* Model of rocon_interactions' InteractionsManager (manager.py): the      *)
(* watch loop that reconciles the tracked remocon monitors against the     *)
(* master's topic listing, the status callbacks of the monitors, and the   *)
(* four ROS service handlers.                                              *)
(***************************************************************************)
EXTENDS Integers, Sequences, FiniteSets, TLC

(***************************************************************************)
(* Bounds of the model.                                                    *)
(***************************************************************************)
\* longest topic listing returned by one getPublishedTopics call
MaxListLen == 2
\* number of RemoconMonitor objects constructed in one run
MaxMonitors == 2

\* the remocon topics that can be advertised under /remocons
Channels == {"/remocons/a", "/remocons/b"}
\* application names a remocon can report in its status
Apps == {"chat_app", "teleop"}

\* remocon.status is None: no status message received yet
NoStatus == [known |-> FALSE, running_app |-> FALSE, app_name |-> ""]
IdleStatus == [known |-> TRUE, running_app |-> FALSE, app_name |-> ""]
RunningStatus(a) == [known |-> TRUE, running_app |-> TRUE, app_name |-> a]
\* the RemoconStatus messages a remocon can publish
Statuses == {IdleStatus} \cup {RunningStatus(a) : a \in Apps}

VARIABLES
    pc,                     \* position of the watch loop thread in spin()
    shutdown,               \* rospy.is_shutdown()
    listOutcome,            \* how the last getPublishedTopics call ended
    remocon_topics,         \* spin local: the listing of the current pass
    new_remocon_topics,     \* spin local: new topics still to be handled
    lost_remocon_topics,    \* spin local: lost topics still to be handled
    remocon_monitors,       \* self._remocon_monitors: topic -> monitor id
    remocons,               \* every RemoconMonitor constructed so far
    interactive_clients,    \* last message published on ~interactive_clients
    passPublishes,          \* publications made by spin in the current pass
    passCreated,            \* monitors constructed by spin in the current pass
    passReleased,           \* monitors unregistered by spin in the current pass
    repeated,               \* the current pass listed what the pass before listed
    interactions_table,     \* self.interactions_table: the loaded interactions
    response,               \* what the last service call handed to its caller
    concurrent_responses,   \* what two calls served side by side handed back
    init_pc,                \* position of the constructing thread in __init__
    settled                 \* the listing the master has settled on, if it has

vars == <<pc, shutdown, listOutcome, remocon_topics, new_remocon_topics,
          lost_remocon_topics, remocon_monitors, remocons,
          interactive_clients, passPublishes, passCreated, passReleased,
          repeated, interactions_table, response, concurrent_responses,
          init_pc, settled>>

\* the state the watch loop and the monitors work on
presenceVars == <<pc, shutdown, listOutcome, remocon_topics, new_remocon_topics,
                  lost_remocon_topics, remocon_monitors, remocons,
                  interactive_clients, passPublishes, passCreated, passReleased,
                  repeated>>

\* the state only the service handlers write
requestVars == <<interactions_table, response, concurrent_responses>>

\* the construction of the manager and the behaviour of the master
lifeVars == <<init_pc, settled>>

Range(s) == {s[i] : i \in 1..Len(s)}

\* all sequences over S of length at most n
RECURSIVE SeqsUpTo(_, _)
SeqsUpTo(S, n) ==
    IF n = 0 THEN {<<>>}
    ELSE LET shorter == SeqsUpTo(S, n - 1)
         IN  shorter \cup {Append(s, x) : s \in {t \in shorter : Len(t) = n - 1}, x \in S}

\* the orders in which a dict can enumerate the key set S
Orderings(S) == {s \in SeqsUpTo(S, Cardinality(S)) : Len(s) = Cardinality(S) /\ Range(s) = S}

\* diff = lambda l1, l2: [x for x in l1 if x not in l2]
diff(l1, l2) ==
    LET keep(x) == x \notin Range(l2)
    IN  SelectSeq(l1, keep)

\* the diff left out: every listed topic is taken for new
NewRemoconTopics_NoDiff(topics, keys) == topics

\* new_remocon_topics = diff(remocon_topics, self._remocon_monitors.keys())
NewRemoconTopics(topics, keys) == diff(topics, keys)

\* the second diff left out: no tracked topic is ever taken for lost
LostRemoconTopics_NoLoss(keys, topics) == <<>>

\* lost_remocon_topics = diff(self._remocon_monitors.keys(), remocon_topics)
LostRemoconTopics(keys, topics) == diff(keys, topics)

\* RemoconMonitor(remocon_topic, callback): subscribed, no status yet
NewMonitor(topic) == [topic |-> topic, status |-> NoStatus, unregistered |-> 0]

\* a fixed enumeration of the topics, standing for the order of dict.values()
RECURSIVE SetToSeq(_)
SetToSeq(S) ==
    IF S = {} THEN <<>>
    ELSE LET x == CHOOSE y \in S : \A z \in S : y <= z
         IN  <<x>> \o SetToSeq(S \ {x})

\* the else of the running/idle branch left out: every client with a known
\* status is appended to idle_clients
InteractiveClientsMsg_NoElse(monitors, objs) ==
    LET vals == SetToSeq({monitors[t] : t \in DOMAIN monitors})
        known(i) == objs[i].status.known
        running(i) == known(i) /\ objs[i].status.running_app
        runClient(i) == [name |-> objs[i].topic, app_name |-> objs[i].status.app_name]
        idleClient(i) == [name |-> objs[i].topic, app_name |-> ""]
        runIds == SelectSeq(vals, running)
        idleIds == SelectSeq(vals, known)
    IN  [running_clients |-> [k \in 1..Len(runIds) |-> runClient(runIds[k])],
         idle_clients |-> [k \in 1..Len(idleIds) |-> idleClient(idleIds[k])]]

\* the test for a status of None left out: a monitor without a status is
\* listed as idle
InteractiveClientsMsg_NoneIsIdle(monitors, objs) ==
    LET vals == SetToSeq({monitors[t] : t \in DOMAIN monitors})
        running(i) == objs[i].status.running_app
        idle(i) == ~objs[i].status.running_app
        runClient(i) == [name |-> objs[i].topic, app_name |-> objs[i].status.app_name]
        idleClient(i) == [name |-> objs[i].topic, app_name |-> ""]
        runIds == SelectSeq(vals, running)
        idleIds == SelectSeq(vals, idle)
    IN  [running_clients |-> [k \in 1..Len(runIds) |-> runClient(runIds[k])],
         idle_clients |-> [k \in 1..Len(idleIds) |-> idleClient(idleIds[k])]]

\* the InteractiveClients message built from a monitor map
InteractiveClientsMsg(monitors, objs) ==
    LET vals == SetToSeq({monitors[t] : t \in DOMAIN monitors})
        known(i) == objs[i].status.known
        running(i) == known(i) /\ objs[i].status.running_app
        idle(i) == known(i) /\ ~objs[i].status.running_app
        runClient(i) == [name |-> objs[i].topic, app_name |-> objs[i].status.app_name]
        idleClient(i) == [name |-> objs[i].topic, app_name |-> ""]
        runIds == SelectSeq(vals, running)
        idleIds == SelectSeq(vals, idle)
    IN  [running_clients |-> [k \in 1..Len(runIds) |-> runClient(runIds[k])],
         idle_clients |-> [k \in 1..Len(idleIds) |-> idleClient(idleIds[k])]]

EmptyMap == [t \in {} |-> 0]

\* the master's listing still varies from call to call
NotSettled == [on |-> FALSE, topics |-> <<>>]

(***************************************************************************)
(* The interactions table and the service requests.                        *)
(***************************************************************************)
\* largest max an interaction definition carries
MaxQuota == 2
\* longest list of interactions in one set_interactions request
MaxBatch == 2

\* roles interactions are defined under, and roles a request can name
Roles == {"operator"}
RequestRoles == Roles \cup {"guest"}
\* names and namespaces of the interaction definitions
AppNames == {"chat_app"}
Namespaces == {"/chat", "/other"}

\* the interaction messages a set_interactions request can carry; the table
\* rejects those with valid = FALSE
InteractionDefs ==
    [name : AppNames, role : Roles, namespace : Namespaces, max : 0..MaxQuota, valid : {TRUE}]
    \cup {[name |-> "chat_app", role |-> "operator", namespace |-> "/chat", max |-> 1, valid |-> FALSE]}

Batches == SeqsUpTo(InteractionDefs, MaxBatch)

\* the identity an interaction is hashed by
Identity(i) == <<i.name, i.role, i.namespace>>
Hashes == {Identity(d) : d \in InteractionDefs}

Entry(d) == [name |-> d.name, role |-> d.role, namespace |-> d.namespace, max |-> d.max]

\* interactions_table.load(msgs): the table afterwards; a loaded identity
\* replaces the entry already stored under it
RECURSIVE Load(_, _)
Load(table, msgs) ==
    IF msgs = <<>> THEN table
    ELSE LET d == Head(msgs)
             next == IF d.valid
                     THEN {i \in table : Identity(i) # Identity(d)} \cup {Entry(d)}
                     ELSE table
         IN  Load(next, Tail(msgs))

\* the invalid_interactions that interactions_table.load(msgs) returns
Invalid(msgs) ==
    LET rejected(d) == ~d.valid
    IN  SelectSeq(msgs, rejected)

\* interactions_table.unload(msgs): the table afterwards
Unload(table, msgs) == {i \in table : \A k \in 1..Len(msgs) : Identity(i) # Identity(msgs[k])}

\* interactions_table.find(hash)
Find(table, hash) == {i \in table : Identity(i) = hash}

\* interactions_table.roles()
TableRoles(table) == {i.role : i \in table}

\* interactions_table.filter(roles, uri); an empty roles list matches all
Filter(table, roles) == IF roles = {} THEN table ELSE {i \in table : i.role \in roles}

\* the requests request_interaction can receive
Requests == [role : RequestRoles, application : Apps, namespace : Namespaces]

\* a service call that raised, and one that returned its response message
NoResponse == [op |-> "none", fault |-> "none", result |-> FALSE, error_code |-> "none"]
Fault(op, e) == [op |-> op, fault |-> e, result |-> FALSE, error_code |-> "none"]
Reply(op, result, code) == [op |-> op, fault |-> "none", result |-> result, error_code |-> code]

\* the attributes __init__ assigns; the class has __slots__, so reading any
\* other attribute of the manager raises AttributeError
AssignedAttributes ==
    {"interactions_table", "publishers", "services", "parameters",
     "_watch_loop_period", "_remocon_monitors"}

\* self.role_and_app_table as the handler reads it: role -> interactions
RoleAndAppTable(table) == [r \in TableRoles(table) |-> {i \in table : i.role = r}]

\* the count of the loop over self._remocon_monitors.values()
RunningCount(monitors, objs, application) ==
    Cardinality({t \in DOMAIN monitors :
                    LET st == objs[monitors[t]].status
                    IN  st.known /\ st.running_app /\ st.app_name = application})

\* if count < max: max is the builtin function, not maximum_quota, and
\* Python 2 orders every number before any other object
CountBelowMax(count) == TRUE

\* _ros_service_request_interaction(request)
RequestInteractionResponse(req, table, monitors, objs) ==
    IF "role_and_app_table" \notin AssignedAttributes
    THEN Fault("request_interaction", "AttributeError")
    ELSE LET rat == RoleAndAppTable(table)
             matches == IF req.role \in DOMAIN rat
                        THEN {app \in rat[req.role] :
                                 app.name = req.application /\ app.namespace = req.namespace}
                        ELSE {}
         IN  IF matches = {}
             THEN Reply("request_interaction", FALSE, "ROLE_APP_UNAVAILABLE")
             ELSE LET app == CHOOSE a \in matches : TRUE
                  IN  IF app.max = 0
                      THEN Reply("request_interaction", TRUE, "SUCCESS")
                      ELSE IF CountBelowMax(RunningCount(monitors, objs, req.application))
                           THEN Reply("request_interaction", TRUE, "SUCCESS")
                           ELSE Reply("request_interaction", FALSE, "ROLE_APP_QUOTA_REACHED")


Init ==
    /\ pc = "loop"
    /\ shutdown = FALSE
    /\ listOutcome = "none"
    /\ remocon_topics = <<>>
    /\ new_remocon_topics = <<>>
    /\ lost_remocon_topics = <<>>
    /\ remocon_monitors = EmptyMap
    /\ remocons = <<>>
    /\ interactive_clients = [running_clients |-> <<>>, idle_clients |-> <<>>]
    /\ passPublishes = 0
    /\ passCreated = 0
    /\ passReleased = 0
    /\ repeated = FALSE
    /\ interactions_table = {}
    /\ response = NoResponse
    /\ concurrent_responses = <<NoResponse, NoResponse>>
    /\ init_pc = "done"
    /\ settled = NotSettled

\* where spin goes once the loops over the given lists are (re)entered
AfterLists(new, lost) ==
    IF new # <<>> THEN "new" ELSE IF lost # <<>> THEN "lost" ELSE "sleep"

\* while not rospy.is_shutdown():
SpinLoop ==
    /\ pc = "loop"
    /\ pc' = IF shutdown THEN "done" ELSE "list"
    /\ UNCHANGED requestVars
    /\ UNCHANGED lifeVars
    /\ UNCHANGED <<passCreated, passReleased, repeated>>
    /\ UNCHANGED <<shutdown, listOutcome, remocon_topics, new_remocon_topics,
                   lost_remocon_topics, remocon_monitors, remocons,
                   interactive_clients, passPublishes>>

\* getPublishedTopics succeeds with the listing topics; the two diffs
SpinListOk(topics, keys) ==
    /\ pc = "list"
    /\ settled.on => topics = settled.topics
    /\ keys \in Orderings(DOMAIN remocon_monitors)
    /\ Len(remocons) + Len(NewRemoconTopics(topics, keys)) <= MaxMonitors
    /\ listOutcome' = "ok"
    /\ remocon_topics' = topics
    /\ new_remocon_topics' = NewRemoconTopics(topics, keys)
    /\ lost_remocon_topics' = LostRemoconTopics(keys, topics)
    /\ passPublishes' = 0
    /\ pc' = AfterLists(new_remocon_topics', lost_remocon_topics')
    /\ UNCHANGED requestVars
    /\ UNCHANGED lifeVars
    /\ passCreated' = 0
    /\ passReleased' = 0
    /\ repeated' = (listOutcome = "ok" /\ topics = remocon_topics)
    /\ UNCHANGED <<shutdown, remocon_monitors, remocons, interactive_clients>>

\* an error handler that drops the tracked monitors
SpinListFail_Drops(kind) ==
    /\ pc = "list"
    /\ listOutcome' = kind
    /\ passPublishes' = 0
    /\ passCreated' = 0
    /\ passReleased' = 0
    /\ repeated' = FALSE
    /\ remocon_monitors' = EmptyMap
    /\ pc' = "sleep"
    /\ UNCHANGED requestVars
    /\ UNCHANGED lifeVars
    /\ UNCHANGED <<shutdown, remocon_topics, new_remocon_topics,
                   lost_remocon_topics, remocons, interactive_clients>>

\* an error that is not caught: it ends spin()
SpinListFail_Stops(kind) ==
    /\ pc = "list"
    /\ ~settled.on
    /\ listOutcome' = kind
    /\ passPublishes' = 0
    /\ pc' = "done"
    /\ UNCHANGED requestVars
    /\ UNCHANGED lifeVars
    /\ passCreated' = 0
    /\ passReleased' = 0
    /\ repeated' = FALSE
    /\ UNCHANGED <<shutdown, remocon_topics, new_remocon_topics,
                   lost_remocon_topics, remocon_monitors, remocons,
                   interactive_clients>>

\* getPublishedTopics raises rosgraph.masterapi.Error or Failure
SpinListFail(kind) ==
    /\ pc = "list"
    /\ ~settled.on
    /\ listOutcome' = kind
    /\ passPublishes' = 0
    /\ pc' = "sleep"
    /\ UNCHANGED requestVars
    /\ UNCHANGED lifeVars
    /\ passCreated' = 0
    /\ passReleased' = 0
    /\ repeated' = FALSE
    /\ UNCHANGED <<shutdown, remocon_topics, new_remocon_topics,
                   lost_remocon_topics, remocon_monitors, remocons,
                   interactive_clients>>

\* self._remocon_monitors[remocon_topic] = RemoconMonitor(...)
SpinNewCreate ==
    /\ pc = "new"
    /\ LET t == Head(new_remocon_topics)
           id == Len(remocons) + 1
       IN  /\ remocons' = Append(remocons, NewMonitor(t))
           /\ remocon_monitors' =
                  [k \in DOMAIN remocon_monitors \cup {t} |->
                      IF k = t THEN id ELSE remocon_monitors[k]]
    /\ pc' = "new_publish"
    /\ UNCHANGED requestVars
    /\ UNCHANGED lifeVars
    /\ passCreated' = passCreated + 1
    /\ UNCHANGED <<passReleased, repeated>>
    /\ UNCHANGED <<shutdown, listOutcome, remocon_topics, new_remocon_topics,
                   lost_remocon_topics, interactive_clients, passPublishes>>

\* self._ros_publish_interactive_clients() in the loop over the new topics
SpinNewPublish ==
    /\ pc = "new_publish"
    /\ interactive_clients' = InteractiveClientsMsg(remocon_monitors, remocons)
    /\ passPublishes' = passPublishes + 1
    /\ new_remocon_topics' = Tail(new_remocon_topics)
    /\ pc' = AfterLists(new_remocon_topics', lost_remocon_topics)
    /\ UNCHANGED requestVars
    /\ UNCHANGED lifeVars
    /\ UNCHANGED <<passCreated, passReleased, repeated>>
    /\ UNCHANGED <<shutdown, listOutcome, remocon_topics, lost_remocon_topics,
                   remocon_monitors, remocons>>

\* self._remocon_monitors[remocon_topic].unregister()
SpinLostUnregister ==
    /\ pc = "lost"
    /\ LET id == remocon_monitors[Head(lost_remocon_topics)]
       IN  remocons' = [remocons EXCEPT ![id].unregistered = @ + 1]
    /\ pc' = "lost_del"
    /\ UNCHANGED requestVars
    /\ UNCHANGED lifeVars
    /\ passReleased' = passReleased + 1
    /\ UNCHANGED <<passCreated, repeated>>
    /\ UNCHANGED <<shutdown, listOutcome, remocon_topics, new_remocon_topics,
                   lost_remocon_topics, remocon_monitors, interactive_clients,
                   passPublishes>>

\* del self._remocon_monitors[remocon_topic]
SpinLostDel ==
    /\ pc = "lost_del"
    /\ LET t == Head(lost_remocon_topics)
       IN  /\ remocon_monitors' =
                  [k \in DOMAIN remocon_monitors \ {t} |-> remocon_monitors[k]]
           \* the monitor object is no longer referenced: its status is gone
           /\ remocons' = [remocons EXCEPT ![remocon_monitors[t]].status = NoStatus]
    /\ pc' = "lost_publish"
    /\ UNCHANGED requestVars
    /\ UNCHANGED lifeVars
    /\ UNCHANGED <<passCreated, passReleased, repeated>>
    /\ UNCHANGED <<shutdown, listOutcome, remocon_topics, new_remocon_topics,
                   lost_remocon_topics, interactive_clients, passPublishes>>

\* the publication moved out of the loop over the lost topics: it happens
\* once, after the last of them
SpinLostPublish_Once ==
    /\ pc = "lost_publish"
    /\ interactive_clients' = InteractiveClientsMsg(remocon_monitors, remocons)
    /\ passPublishes' = IF Tail(lost_remocon_topics) = <<>> THEN passPublishes + 1
                                                          ELSE passPublishes
    /\ lost_remocon_topics' = Tail(lost_remocon_topics)
    /\ pc' = AfterLists(<<>>, lost_remocon_topics')
    /\ UNCHANGED requestVars
    /\ UNCHANGED lifeVars
    /\ UNCHANGED <<passCreated, passReleased, repeated>>
    /\ UNCHANGED <<shutdown, listOutcome, remocon_topics, new_remocon_topics,
                   remocon_monitors, remocons>>

\* self._ros_publish_interactive_clients() in the loop over the lost topics
SpinLostPublish ==
    /\ pc = "lost_publish"
    /\ interactive_clients' = InteractiveClientsMsg(remocon_monitors, remocons)
    /\ passPublishes' = passPublishes + 1
    /\ lost_remocon_topics' = Tail(lost_remocon_topics)
    /\ pc' = AfterLists(<<>>, lost_remocon_topics')
    /\ UNCHANGED requestVars
    /\ UNCHANGED lifeVars
    /\ UNCHANGED <<passCreated, passReleased, repeated>>
    /\ UNCHANGED <<shutdown, listOutcome, remocon_topics, new_remocon_topics,
                   remocon_monitors, remocons>>

\* rospy.rostime.wallsleep(self._watch_loop_period)
SpinSleep ==
    /\ pc = "sleep"
    /\ pc' = "loop"
    /\ UNCHANGED requestVars
    /\ UNCHANGED lifeVars
    /\ UNCHANGED <<passCreated, passReleased, repeated>>
    /\ UNCHANGED <<shutdown, listOutcome, remocon_topics, new_remocon_topics,
                   lost_remocon_topics, remocon_monitors, remocons,
                   interactive_clients, passPublishes>>

\* a status message arrives at a subscribed monitor: the monitor stores it
\* and calls its callback, _ros_publish_interactive_clients
StatusUpdate(id, s) ==
    /\ ~shutdown
    /\ id \in 1..Len(remocons)
    /\ remocons[id].unregistered = 0
    /\ remocons[id].status # s
    /\ remocons' = [remocons EXCEPT ![id].status = s]
    /\ interactive_clients' = InteractiveClientsMsg(remocon_monitors, remocons')
    /\ UNCHANGED requestVars
    /\ UNCHANGED lifeVars
    /\ UNCHANGED <<passCreated, passReleased, repeated>>
    /\ UNCHANGED <<pc, shutdown, listOutcome, remocon_topics, new_remocon_topics,
                   lost_remocon_topics, remocon_monitors, passPublishes>>

\* the directory settles: from now on getPublishedTopics succeeds and
\* returns the topics of L
Settle(L) ==
    /\ ~settled.on
    /\ ~shutdown
    /\ Len(remocons) + Len(new_remocon_topics) + Len(L) <= MaxMonitors
    /\ settled' = [on |-> TRUE, topics |-> L]
    /\ UNCHANGED presenceVars
    /\ UNCHANGED requestVars
    /\ UNCHANGED init_pc

\* the node is asked to shut down
SignalShutdown ==
    /\ ~shutdown
    /\ shutdown' = TRUE
    /\ UNCHANGED requestVars
    /\ UNCHANGED lifeVars
    /\ UNCHANGED <<passCreated, passReleased, repeated>>
    /\ UNCHANGED <<pc, listOutcome, remocon_topics, new_remocon_topics,
                   lost_remocon_topics, remocon_monitors, remocons,
                   interactive_clients, passPublishes>>

\* the lines of __init__ up to the preload loop, in the order they run:
\* each assigns the attribute it is named after
CtorOrder ==
    <<"interactions_table", "publishers", "services", "parameters",
      "watch_loop_period", "remocon_monitors", "preload">>

\* rospy serves a service from the moment _setup_services has created it,
\* for as long as the process lives
ServicesRegistered ==
    init_pc \in {"parameters", "watch_loop_period", "remocon_monitors", "preload", "done"}

\* one of the assignments at the head of __init__
CtorAssign ==
    /\ \E k \in 1..(Len(CtorOrder) - 1) :
           /\ init_pc = CtorOrder[k]
           /\ init_pc' = CtorOrder[k + 1]
    /\ UNCHANGED presenceVars
    /\ UNCHANGED requestVars
    /\ UNCHANGED settled

\* one round of the preload loop over a resource that holds msgs; a resource
\* that is missing or malformed is logged and changes nothing. The logwarn
\* over the invalid interactions calls a string: the TypeError is caught by
\* neither except clause and ends __init__
CtorPreload(msgs) ==
    /\ init_pc = "preload"
    /\ interactions_table' = Load(interactions_table, msgs)
    /\ init_pc' = IF Invalid(msgs) # <<>> THEN "failed" ELSE "preload"
    /\ UNCHANGED presenceVars
    /\ UNCHANGED <<response, concurrent_responses, settled>>

\* the preload loop is exhausted and __init__ returns
CtorReturn ==
    /\ init_pc = "preload"
    /\ init_pc' = "done"
    /\ UNCHANGED presenceVars
    /\ UNCHANGED requestVars
    /\ UNCHANGED settled

\* _ros_service_get_interaction(request)
GetInteraction(hash) ==
    /\ ServicesRegistered
    /\ response' = Reply("get_interaction", Find(interactions_table, hash) # {}, "none")
    /\ UNCHANGED interactions_table
    /\ UNCHANGED presenceVars
    /\ UNCHANGED <<concurrent_responses, lifeVars>>

\* _ros_service_get_interactions(request): warns about the unregistered
\* roles and returns the filtered interactions
GetInteractions(roles) ==
    /\ ServicesRegistered
    /\ response' = Reply("get_interactions", Filter(interactions_table, roles) # {}, "none")
    /\ UNCHANGED interactions_table
    /\ UNCHANGED presenceVars
    /\ UNCHANGED <<concurrent_responses, lifeVars>>

\* _ros_service_set_interactions(request): the logwarn over the invalid
\* interactions calls a string, which raises TypeError
SetInteractions(msgs, load) ==
    /\ ServicesRegistered
    /\ interactions_table' = IF load THEN Load(interactions_table, msgs)
                                     ELSE Unload(interactions_table, msgs)
    /\ response' = IF load /\ Invalid(msgs) # <<>>
                   THEN Fault("set_interactions", "TypeError")
                   ELSE Reply("set_interactions", TRUE, "none")
    /\ UNCHANGED presenceVars
    /\ UNCHANGED <<concurrent_responses, lifeVars>>

\* a handler that reserves a slot in the table for the caller
RequestInteraction_Reserves(req) ==
    /\ ServicesRegistered
    /\ response' = RequestInteractionResponse(req, interactions_table,
                                             remocon_monitors, remocons)
    /\ interactions_table' =
           {IF i.role = req.role /\ i.name = req.application
                  /\ i.namespace = req.namespace /\ i.max > 1
            THEN [i EXCEPT !.max = @ - 1] ELSE i : i \in interactions_table}
    /\ UNCHANGED presenceVars
    /\ UNCHANGED <<concurrent_responses, lifeVars>>

\* _ros_service_request_interaction(request)
RequestInteraction(req) ==
    /\ ServicesRegistered
    /\ response' = RequestInteractionResponse(req, interactions_table,
                                             remocon_monitors, remocons)
    /\ UNCHANGED interactions_table
    /\ UNCHANGED presenceVars
    /\ UNCHANGED <<concurrent_responses, lifeVars>>

\* two request_interaction calls served side by side by two handler
\* threads: the handler writes nothing the other reads, so both run on the
\* same table and the same statuses
ConcurrentRequests(req1, req2) ==
    /\ ServicesRegistered
    /\ concurrent_responses' =
           <<RequestInteractionResponse(req1, interactions_table, remocon_monitors, remocons),
             RequestInteractionResponse(req2, interactions_table, remocon_monitors, remocons)>>
    /\ response' = concurrent_responses'[2]
    /\ UNCHANGED interactions_table
    /\ UNCHANGED presenceVars
    /\ UNCHANGED lifeVars

Listings == SeqsUpTo(Channels, MaxListLen)

\* the watch loop, the monitors' status callbacks and the shutdown signal
NextPresence ==
    \/ SpinLoop
    \/ \E topics \in Listings :
           \E keys \in Orderings(DOMAIN remocon_monitors) : SpinListOk(topics, keys)
    \/ \E kind \in {"Error", "Failure"} : SpinListFail(kind)
    \/ SpinNewCreate
    \/ SpinNewPublish
    \/ SpinLostUnregister
    \/ SpinLostDel
    \/ SpinLostPublish
    \/ SpinSleep
    \/ \E id \in 1..MaxMonitors : \E s \in Statuses : StatusUpdate(id, s)
    \/ SignalShutdown

\* the four service handlers
NextServices ==
    \/ \E hash \in Hashes : GetInteraction(hash)
    \/ \E roles \in SUBSET RequestRoles : GetInteractions(roles)
    \/ \E msgs \in Batches : \E load \in BOOLEAN : SetInteractions(msgs, load)
    \/ \E req \in Requests : RequestInteraction(req)

Next ==
    \/ NextPresence
    \/ \E L \in Listings : Settle(L)
    \/ NextServices
    \/ \E req1, req2 \in Requests : ConcurrentRequests(req1, req2)

\* the whole manager
Spec == Init /\ [][Next]_vars

\* the watch loop and the monitors alone: no handler writes their state
SpecPresence == Init /\ [][NextPresence]_vars

\* the manager while the watch loop sleeps after its first pass, which
\* found the topics of some listing: the handlers and the status callbacks
InitRequests ==
    \E topics \in Listings :
        /\ Len(topics) <= MaxMonitors
        /\ pc = "sleep"
        /\ shutdown = FALSE
        /\ listOutcome = "ok"
        /\ remocon_topics = topics
        /\ new_remocon_topics = <<>>
        /\ lost_remocon_topics = <<>>
        /\ remocons = [k \in 1..Len(topics) |-> NewMonitor(topics[k])]
        /\ remocon_monitors =
               [t \in Range(topics) |->
                   CHOOSE k \in 1..Len(topics) :
                       topics[k] = t /\ \A j \in 1..Len(topics) : topics[j] = t => j <= k]
        /\ interactive_clients = [running_clients |-> <<>>, idle_clients |-> <<>>]
        /\ passPublishes = Len(topics)
        /\ passCreated = Len(topics)
        /\ passReleased = 0
        /\ repeated = FALSE
        /\ interactions_table = {}
        /\ response = NoResponse
        /\ concurrent_responses = <<NoResponse, NoResponse>>
        /\ init_pc = "done"
        /\ settled = NotSettled

NextRequests ==
    \/ \E id \in 1..MaxMonitors : \E s \in Statuses : StatusUpdate(id, s)
    \/ NextServices

SpecRequests == InitRequests /\ [][NextRequests]_vars

\* the tables that set_interactions and the preload can build
Tables ==
    {T \in SUBSET {Entry(d) : d \in {e \in InteractionDefs : e.valid}} :
        \A i, j \in T : Identity(i) = Identity(j) => i = j}

\* the steps of the thread that runs spin()
SpinSteps ==
    \/ SpinLoop
    \/ \E topics \in Listings :
           \E keys \in Orderings(DOMAIN remocon_monitors) : SpinListOk(topics, keys)
    \/ \E kind \in {"Error", "Failure"} : SpinListFail(kind)
    \/ SpinNewCreate
    \/ SpinNewPublish
    \/ SpinLostUnregister
    \/ SpinLostDel
    \/ SpinLostPublish
    \/ SpinSleep

NextRecovery ==
    \/ SpinSteps
    \/ \E L \in Listings : Settle(L)

\* the watch loop of a node that is not shut down, over a directory that
\* settles at some point; the thread of spin() is always scheduled again.
\* The status callbacks are left to SpecPresence: the loop reads no status
SpecRecovery == Init /\ [][NextRecovery]_vars /\ WF_vars(SpinSteps)

NextWatch ==
    \/ SpinSteps
    \/ \E id \in 1..MaxMonitors : \E s \in Statuses : StatusUpdate(id, s)
    \/ \E req \in Requests : RequestInteraction(req)

\* the watch loop of a node that is not shut down, the monitors and
\* request_interaction, which reads them
SpecWatch == Init /\ [][NextWatch]_vars

\* the manager while the watch loop sleeps after its first pass, with some
\* table loaded: request_interaction and the status callbacks
InitArbiter ==
    \E topics \in Listings :
        /\ Len(topics) <= MaxMonitors
        /\ pc = "sleep"
        /\ shutdown = FALSE
        /\ listOutcome = "ok"
        /\ remocon_topics = topics
        /\ new_remocon_topics = <<>>
        /\ lost_remocon_topics = <<>>
        /\ remocons = [k \in 1..Len(topics) |-> NewMonitor(topics[k])]
        /\ remocon_monitors =
               [t \in Range(topics) |->
                   CHOOSE k \in 1..Len(topics) :
                       topics[k] = t /\ \A j \in 1..Len(topics) : topics[j] = t => j <= k]
        /\ interactive_clients = [running_clients |-> <<>>, idle_clients |-> <<>>]
        /\ passPublishes = Len(topics)
        /\ passCreated = Len(topics)
        /\ passReleased = 0
        /\ repeated = FALSE
        /\ interactions_table \in Tables
        /\ response = NoResponse
        /\ concurrent_responses = <<NoResponse, NoResponse>>
        /\ init_pc = "done"
        /\ settled = NotSettled

NextArbiter ==
    \/ \E id \in 1..MaxMonitors : \E s \in Statuses : StatusUpdate(id, s)
    \/ \E req \in Requests : RequestInteraction(req)
    \/ \E req1, req2 \in Requests : ConcurrentRequests(req1, req2)

SpecArbiter == InitArbiter /\ [][NextArbiter]_vars

\* the manager from the first line of __init__ on: the constructing thread
\* and the service handlers
InitConstruction ==
    /\ pc = "loop"
    /\ shutdown = FALSE
    /\ listOutcome = "none"
    /\ remocon_topics = <<>>
    /\ new_remocon_topics = <<>>
    /\ lost_remocon_topics = <<>>
    /\ remocon_monitors = EmptyMap
    /\ remocons = <<>>
    /\ interactive_clients = [running_clients |-> <<>>, idle_clients |-> <<>>]
    /\ passPublishes = 0
    /\ passCreated = 0
    /\ passReleased = 0
    /\ repeated = FALSE
    /\ interactions_table = {}
    /\ response = NoResponse
    /\ concurrent_responses = <<NoResponse, NoResponse>>
    /\ init_pc = CtorOrder[1]
    /\ settled = NotSettled

NextConstruction ==
    \/ CtorAssign
    \/ \E msgs \in Batches : CtorPreload(msgs)
    \/ CtorReturn
    \/ NextServices

SpecConstruction == InitConstruction /\ [][NextConstruction]_vars

(***************************************************************************)
(* Properties of the watch loop, checked under SpecPresence.               *)
(***************************************************************************)
\* the watch loop is between two passes and its last listing succeeded
PassSucceeded == pc \in {"sleep", "loop", "list", "done"} /\ listOutcome = "ok"

\* C1: after every pass whose listing succeeded, the topics of the tracked
\* monitor map are exactly the topics that listing returned.
C1_MembershipConvergence ==
    PassSucceeded => DOMAIN remocon_monitors = Range(remocon_topics)

\* a pass that both created and released monitors has ended
C1_Witness ==
    /\ pc = "sleep"
    /\ listOutcome = "ok"
    /\ passCreated > 0
    /\ passReleased > 0
    /\ DOMAIN remocon_monitors = Range(remocon_topics)

\* C6 as stated: a pass that created or released a monitor published the
\* interactive_clients snapshot exactly once.
C6_SingleNotification ==
    (pc = "sleep" /\ listOutcome = "ok" /\ passCreated + passReleased > 0)
        => passPublishes = 1

\* C6 as amended: a pass publishes the snapshot once for every monitor it
\* created and once for every monitor it released.
C6_NotificationPerChange ==
    (pc = "sleep" /\ listOutcome = "ok")
        => passPublishes = passCreated + passReleased

\* a pass that changed two entries has ended, having published twice
C6_Witness ==
    /\ pc = "sleep"
    /\ listOutcome = "ok"
    /\ passCreated + passReleased = 2
    /\ passPublishes = 2

\* C7: a pass whose listing equals the listing of the pass before it, both
\* successful, goes straight to its sleep: it constructs and unregisters no
\* monitor, leaves the tracked map as it was and publishes nothing.
C7_IdempotentReconciliation ==
    [][(/\ pc = "list"
        /\ pc' # "list"
        /\ listOutcome = "ok"
        /\ listOutcome' = "ok"
        /\ remocon_topics' = remocon_topics)
       => (/\ pc' = "sleep"
           /\ remocon_monitors' = remocon_monitors
           /\ remocons' = remocons
           /\ interactive_clients' = interactive_clients
           /\ passCreated' = 0
           /\ passReleased' = 0
           /\ passPublishes' = 0)]_vars

\* a second pass over the same non-empty listing has ended
C7_Witness ==
    /\ pc = "sleep"
    /\ repeated
    /\ remocon_topics # <<>>
    /\ DOMAIN remocon_monitors # {}

\* C8: a pass whose listing call raises Error or Failure leaves the tracked
\* map and the monitors as they were, publishes nothing and goes on to the
\* sleep that precedes the next pass.
C8_DirectoryErrorLeavesState ==
    [][(/\ pc = "list"
        /\ pc' # "list"
        /\ listOutcome' \in {"Error", "Failure"})
       => (/\ pc' = "sleep"
           /\ remocon_monitors' = remocon_monitors
           /\ remocons' = remocons
           /\ interactive_clients' = interactive_clients
           /\ passCreated' = 0
           /\ passReleased' = 0
           /\ passPublishes' = 0)]_vars

\* a pass failed while monitors were tracked, and they still are
C8_Witness ==
    /\ pc = "sleep"
    /\ listOutcome \in {"Error", "Failure"}
    /\ DOMAIN remocon_monitors # {}
    /\ \A t \in DOMAIN remocon_monitors : remocons[remocon_monitors[t]].unregistered = 0

\* C10: once the watch loop has left its while loop, every monitor it
\* constructed has been unregistered.
C10_ShutdownReleasesAll ==
    pc = "done" => \A id \in 1..Len(remocons) : remocons[id].unregistered >= 1

\* how often a client named t is listed in the sequence clients
Listed(clients, t) == Cardinality({k \in 1..Len(clients) : clients[k].name = t})

\* the snapshot snap partitions the clients of the monitor map whose status
\* is known into running and idle
SnapshotPartitions(snap, monitors, objs) ==
    /\ \A t \in DOMAIN monitors :
           LET st == objs[monitors[t]].status
           IN  st.known =>
                   /\ Listed(snap.running_clients, t) = (IF st.running_app THEN 1 ELSE 0)
                   /\ Listed(snap.idle_clients, t) = (IF st.running_app THEN 0 ELSE 1)
                   /\ \A k \in 1..Len(snap.running_clients) :
                          snap.running_clients[k].name = t
                              => snap.running_clients[k].app_name = st.app_name
    /\ \A k \in 1..Len(snap.running_clients) :
           snap.running_clients[k].name \in DOMAIN monitors
    /\ \A k \in 1..Len(snap.idle_clients) :
           /\ snap.idle_clients[k].name \in DOMAIN monitors
           /\ snap.idle_clients[k].app_name = ""

PassPartWay ==
    /\ pc \in {"new", "new_publish", "lost", "lost_del", "lost_publish"}
    /\ passCreated + passReleased > 0
    /\ (Len(new_remocon_topics) - (IF pc = "new_publish" THEN 1 ELSE 0))
           + (Len(lost_remocon_topics) - (IF pc = "lost_publish" THEN 1 ELSE 0)) > 0

\* C14: no reader of the tracked monitor map runs while a pass is part-way
\* through its additions and removals: a status callback, which reads the
\* map to publish the snapshot, runs only before or after them.
C14_ReadersExcluded ==
    [][(\E id \in 1..MaxMonitors : \E st \in Statuses : StatusUpdate(id, st))
          => ~PassPartWay]_vars

\* the monitor remocons[k] is the one the map holds for its topic
Registered(k) ==
    /\ remocons[k].topic \in DOMAIN remocon_monitors
    /\ remocon_monitors[remocons[k].topic] = k

\* C18: between the passes of a running node, every monitor ever created
\* is either the one the map holds for its topic, and not unregistered, or
\* is out of the map and has been unregistered exactly once.
C18_NoLeakNoDuplicate ==
    (pc = "sleep" /\ ~shutdown) =>
        \A k \in 1..Len(remocons) :
            \/ Registered(k) /\ remocons[k].unregistered = 0
            \/ ~Registered(k) /\ remocons[k].unregistered = 1

(***************************************************************************)
(* Properties of request_interaction and of the other handlers, checked    *)
(* under SpecRequests.                                                     *)
(***************************************************************************)
\* the registered interactions a request names
Matching(req) ==
    {i \in interactions_table :
        i.role = req.role /\ i.name = req.application /\ i.namespace = req.namespace}

Granted == Reply("request_interaction", TRUE, "SUCCESS")
DeniedQuota == Reply("request_interaction", FALSE, "ROLE_APP_QUOTA_REACHED")
DeniedUnavailable == Reply("request_interaction", FALSE, "ROLE_APP_UNAVAILABLE")

\* C2: a request that matches an interaction of maximum m > 0 is granted
\* when fewer than m tracked clients run the application, and is denied
\* with ROLE_APP_QUOTA_REACHED otherwise.
C2_QuotaBoundary ==
    [][\A req \in Requests : \A i \in Matching(req) :
          (RequestInteraction(req) /\ i.max > 0)
              => response' =
                     IF RunningCount(remocon_monitors, remocons, req.application) < i.max
                     THEN Granted ELSE DeniedQuota]_vars

\* C3: a request that matches an interaction of maximum 0 is granted.
C3_UnlimitedQuota ==
    [][\A req \in Requests : \A i \in Matching(req) :
          (RequestInteraction(req) /\ i.max = 0) => response' = Granted]_vars

\* C4: a request that matches no registered interaction is denied with
\* ROLE_APP_UNAVAILABLE.
C4_UnavailablePath ==
    [][\A req \in Requests :
          (RequestInteraction(req) /\ Matching(req) = {})
              => response' = DeniedUnavailable]_vars

\* C5: no service call ends in an exception.
C5_NoUnhandledFault == response.fault = "none"

\* C9: a request for an interaction of maximum 1 is denied with
\* ROLE_APP_QUOTA_REACHED exactly while some tracked client's latest status
\* runs the application, and is granted in every other state.
C9_DenialNotSticky ==
    [][\A req \in Requests : \A i \in Matching(req) :
          (RequestInteraction(req) /\ i.max = 1)
              => LET busy == \E t \in DOMAIN remocon_monitors :
                                 remocons[remocon_monitors[t]].status
                                     = RunningStatus(req.application)
                 IN  (busy => response' = DeniedQuota) /\ (~busy => response' = Granted)]_vars

(***************************************************************************)
(* Properties of the construction, checked under SpecConstruction.         *)
(***************************************************************************)
\* the interactions of msgs that the table accepts, in their order
Accepted(msgs) ==
    LET accepted(d) == d.valid
    IN  SelectSeq(msgs, accepted)

\* C11: a load of a batch with rejected definitions, by set_interactions or
\* by the preload, leaves every accepted definition of the batch in the
\* table, changes the table by nothing else, and completes: set_interactions
\* returns its response and the preload goes on to its next resource.
C11_PartialLoad ==
    [][\A msgs \in Batches :
          (Invalid(msgs) # <<>> /\ (SetInteractions(msgs, TRUE) \/ CtorPreload(msgs)))
              => /\ \A k \in 1..Len(msgs) :
                        msgs[k].valid => Find(interactions_table', Identity(msgs[k])) # {}
                 /\ interactions_table' = Load(interactions_table, Accepted(msgs))
                 /\ SetInteractions(msgs, TRUE)
                        => response' = Reply("set_interactions", TRUE, "none")
                 /\ CtorPreload(msgs) => init_pc' = "preload"]_vars

\* C20: no service call is answered before __init__ has returned.
C20_NoRequestBeforeConstructed == init_pc # "done" => response = NoResponse

(***************************************************************************)
(* Properties of the arbitration, checked under SpecArbiter.               *)
(***************************************************************************)
\* C13: two request_interaction calls for the same interaction of maximum 1,
\* served side by side while no tracked client runs the application, are
\* both granted: the first grant reserves nothing.
C13_BothGranted ==
    [][\A req \in Requests : \A i \in Matching(req) :
          (/\ ConcurrentRequests(req, req)
           /\ i.max = 1
           /\ RunningCount(remocon_monitors, remocons, req.application) = 0)
              => concurrent_responses' = <<Granted, Granted>>]_vars

\* C15: when another interaction of the same name is registered under
\* another role or namespace, the clients that run an application of that
\* name all count: a request is denied with ROLE_APP_QUOTA_REACHED as soon as
\* their number reaches the maximum of the requested interaction.
C15_CountByNameOnly ==
    [][\A req \in Requests : \A i \in Matching(req) :
          (/\ RequestInteraction(req)
           /\ i.max > 0
           /\ \E j \in interactions_table : j.name = i.name /\ j # i
           /\ Cardinality({t \in DOMAIN remocon_monitors :
                              remocons[remocon_monitors[t]].status
                                  = RunningStatus(req.application)}) >= i.max)
              => response' = DeniedQuota]_vars

\* C16: a request_interaction call changes neither the tracked monitor map,
\* nor a monitor or its status, nor the table, and publishes nothing.
C16_ArbitrationReadOnly ==
    [][(response' # response /\ response'.op = "request_interaction")
          => UNCHANGED <<remocon_monitors, remocons, interactions_table,
                         interactive_clients, passPublishes>>]_vars

\* a request_interaction call has been served with a table loaded and a
\* tracked client running an application
C16_Witness ==
    /\ response.op = "request_interaction"
    /\ \E i \in interactions_table : i.max > 1
    /\ \E t \in DOMAIN remocon_monitors :
           remocons[remocon_monitors[t]].status.running_app
    /\ interactive_clients.running_clients # <<>>

(***************************************************************************)
(* Recovery of the watch loop, checked under SpecRecovery.                 *)
(***************************************************************************)
\* C17: once the directory has settled on the listing L, the tracked
\* channel set eventually equals the topics of L and stays equal to them,
\* whatever errors the passes before met.
C17_RecoveryByNextCycle ==
    [](settled.on => <>[](DOMAIN remocon_monitors = Range(settled.topics)))

\* a pass failed on a directory error, the directory settled with a tracked
\* set that differed from its listing, and a later pass has reconciled
C17_Witness ==
    /\ settled.on
    /\ settled.topics # <<>>
    /\ listOutcome = "ok"
    /\ pc = "sleep"
    /\ \E k \in 1..Len(remocons) : remocons[k].unregistered = 1
    /\ DOMAIN remocon_monitors = Range(settled.topics)

(***************************************************************************)
(* Clients without a status, checked under SpecWatch.                      *)
(***************************************************************************)
\* the monitor map without the monitors that have no status yet
KnownOnly(monitors, objs) ==
    [t \in {u \in DOMAIN monitors : objs[monitors[u]].status.known} |-> monitors[t]]

====
